---- MODULE Spec2Model ----
(***************************************************************************)
(* tikz2png: the batch orchestrator TikZConverter (converter.py) with its  *)
(* collaborators LaTeXCompiler, ImageConverter and FileManager, over a     *)
(* small file system of directory entries and modification times; the      *)
(* start-up (main, create_converter, Directories, the tools' constructors) *)
(* and extract_latex_errors.                                               *)
(***************************************************************************)
EXTENDS Integers, Sequences, FiniteSets, TLC

\* ------------------------------------------------------------------ bounds
\* Number of source stems the source directory may hold.
MaxFiles == 2
\* Modification times are 0..MaxTime; the run itself happens at MaxTime.
MaxTime == 1
\* Number of tokens of a text given to extract_latex_errors.
MaxTextLen == 4

\* ------------------------------------------------------- paths and names
\* A file name is a sequence of tokens: name parts and suffixes (".tex").
\* A path is <<directory, name>>.
StemNames == <<"a", "b", "c", "d">>

Stems == {<<StemNames[i]>> : i \in 1..MaxFiles}

\* The number of times run() is called on one converter.
MaxRuns == 2

Times == 0..MaxTime

Now == MaxTime

TikzDir == "tikz"

FiguresDir == "figures"

\* The list without the intermediate document.
AuxExtsNoPdf == <<".aux", ".log", ".pdb_latexmk", ".fls">>

\* The list with the source's own suffix in it.
AuxExtsWithTex == <<".aux", ".log", ".pdf", ".pdb_latexmk", ".fls", ".tex">>

\* The extensions cleanup_auxiliary_files walks, in the order of the list.
AuxExts == <<".aux", ".log", ".pdf", ".pdb_latexmk", ".fls">>

AuxExtSet == {AuxExts[i] : i \in 1..Len(AuxExts)}

Suffixes == AuxExtSet \cup {".tex", ".png", ".txt", ".bak"}

\* pathlib's Path.stem: the name without its last suffix.
path_stem(p) ==
    LET n == p[2]
    IN IF Len(n) > 1 /\ n[Len(n)] \in Suffixes THEN SubSeq(n, 1, Len(n) - 1) ELSE n

\* pathlib's Path.parent.
path_parent(p) == p[1]

\* working_dir / f"{base_name}{ext}"
join_name(dir, base_name, ext) == <<dir, base_name \o <<ext>>>>

TexPath(s) == join_name(TikzDir, s, ".tex")

\* png_path = directories.figures / f"{tex_file.stem}.png"
png_path_of(tex_file) == join_name(FiguresDir, path_stem(tex_file), ".png")

\* pdf_file = tex_file.parent / f"{tex_file.stem}.pdf"
pdf_file_of(tex_file) == join_name(path_parent(tex_file), path_stem(tex_file), ".pdf")

\* Files that belong to no conversion and are always there: a note, a backup
\* whose name starts like a byproduct, and a pdf of the same stem that lives
\* in the output directory.
Unrelated ==
    { <<TikzDir, <<"notes", ".txt">>>>,
      <<TikzDir, <<"a", ".aux", ".bak">>>>,
      <<FiguresDir, <<"a", ".pdf">>>> }

TimedPaths == {TexPath(s) : s \in Stems} \cup {png_path_of(TexPath(s)) : s \in Stems}

VARIABLES
    entries,       \* the directory entries of both directories (a set of paths)
    dangling,      \* the entries that are symbolic links to nothing
    mtime,         \* st_mtime of the source and output files
    file_manager,  \* "FileManager" (converter.py) or "Mock" (a test double)
    force,         \* run's argument
    tex_files,     \* run's list of enumerated source files
    idx,           \* position of run's loop in tex_files
    pc,            \* where the program is
    stats,         \* TikZConverter.stats
    ret,           \* what the last process_file returned
    calls,         \* the collaborator calls of the current run, in order
    cleanup_log,   \* what the cleanups printed: <<"Removed" | "Failed", path>>
    before,        \* the directory entries when the last cleanup was called
    host,          \* platform.system() and the commands shutil.which finds
    dirs,          \* the state of the directory paths: kind and permissions
    config,        \* the Config: force, tikz_dir, output_dir
    directories,   \* the Directories object: the resolved tikz and figures
    effects,       \* the calls to the system and the logger, in order
    result,        \* what the last call of a unit returned or raised
    commands,      \* ImageConverter.command and LaTeXCompiler.latex_command
    exit_code,     \* the exit code of the process, -1 while it runs
    stderr         \* the text given to extract_latex_errors

vars == <<entries, dangling, mtime, file_manager, force, tex_files, idx, pc,
          stats, ret, calls, cleanup_log, before, host, dirs, config,
          directories, effects, result, commands, exit_code, stderr>>

\* What a run() of the converter never touches.
setup_vars == <<host, dirs, config, directories, result, commands, exit_code, stderr>>

\* What the start-up never touches.
run_vars == <<entries, dangling, mtime, file_manager, force, tex_files, idx,
              stats, ret, calls, cleanup_log, before>>

Effect(op, arg) == [op |-> op, arg |-> arg]

\* ------------------------------------------------------------ file system
\* Path.exists(): false for a missing entry and for a dangling link.
exists(p) == p \in entries /\ p \notin dangling

\* directories.tikz.glob("*.tex"): the entries of the source directory whose
\* name ends in ".tex", dangling links included.
glob_tex == {p \in entries : p[1] = TikzDir /\ p[2][Len(p[2])] = ".tex"}

\* The orders in which glob may list a set of paths: all of them.
Orderings(S) ==
    {q \in [1..Cardinality(S) -> S] : \A i, j \in 1..Cardinality(S) : q[i] = q[j] => i = j}

\* ------------------------------------------------------------ FileManager
\* A checker that never finds an output up to date.
needs_update_always(tex_file, png_file) == "True"

\* needs_update with >= for >: a tie counts as stale.
needs_update_ge(tex_file, png_file) ==
    IF ~exists(png_file) THEN "True"
    ELSE IF ~exists(tex_file) THEN "FileNotFoundError"
    ELSE IF mtime[tex_file] >= mtime[png_file] THEN "True"
    ELSE "False"

\* FileManager.needs_update: "True", "False", or the error tex_file.stat()
\* raises when the source cannot be stat'ed.
needs_update(tex_file, png_file) ==
    IF ~exists(png_file) THEN "True"
    ELSE IF ~exists(tex_file) THEN "FileNotFoundError"
    ELSE IF mtime[tex_file] > mtime[png_file] THEN "True"
    ELSE "False"

\* aux_file = working_dir / f"{base_name}{ext}" for the i-th extension.
aux_file(base_path, i) ==
    join_name(path_parent(base_path), path_stem(base_path), AuxExts[i])

aux_files(base_path) == {aux_file(base_path, i) : i \in 1..Len(AuxExts)}

\* One pass of the loop of cleanup_auxiliary_files, from the i-th extension
\* on. fs: the directory entries so far; log: what was printed so far;
\* failing: the files whose unlink() raises.
RECURSIVE cleanup_loop(_, _, _, _, _)
cleanup_loop(i, fs, log, base_path, failing) ==
    IF i > Len(AuxExts) THEN [entries |-> fs, log |-> log]
    ELSE LET f == aux_file(base_path, i)
         IN IF f \in fs /\ f \notin dangling
            THEN IF f \in failing
                 THEN cleanup_loop(i + 1, fs, Append(log, <<"Failed", f>>),
                                   base_path, failing)
                 ELSE cleanup_loop(i + 1, fs \ {f}, Append(log, <<"Removed", f>>),
                                   base_path, failing)
            ELSE cleanup_loop(i + 1, fs, log, base_path, failing)

\* The loop with one try around all of it: the first unlink() that raises
\* ends the pass.
RECURSIVE cleanup_loop_abort(_, _, _, _, _)
cleanup_loop_abort(i, fs, log, base_path, failing) ==
    IF i > Len(AuxExts) THEN [entries |-> fs, log |-> log]
    ELSE LET f == aux_file(base_path, i)
         IN IF f \in fs /\ f \notin dangling
            THEN IF f \in failing
                 THEN [entries |-> fs, log |-> Append(log, <<"Failed", f>>)]
                 ELSE cleanup_loop_abort(i + 1, fs \ {f}, Append(log, <<"Removed", f>>),
                                         base_path, failing)
            ELSE cleanup_loop_abort(i + 1, fs, log, base_path, failing)

cleanup_auxiliary_files_abort(fs, base_path, failing) ==
    cleanup_loop_abort(1, fs, <<>>, base_path, failing)

\* FileManager.cleanup_auxiliary_files: never raises.
cleanup_auxiliary_files(fs, base_path, failing) ==
    cleanup_loop(1, fs, <<>>, base_path, failing)

\* ------------------------------------------------------- the external tools
\* What a compiler run leaves beside the source: the pdf only on success.
compile_products(tex_file, ok) ==
    {join_name(path_parent(tex_file), path_stem(tex_file), e) :
        e \in (IF ok THEN {".pdf", ".aux", ".log"} ELSE {".aux", ".log"})}

\* ------------------------------------------------------------ TikZConverter
Call(op, file, out) == [op |-> op, file |-> file, out |-> out]

Raised(c) == c.out \notin {"ok", "True", "False"}

\* A skip counted under the wrong key.
count_skipped_as_processed(st) == [st EXCEPT !.processed = @ + 1]

\* self.stats["skipped"] += 1
count_skipped(st) == [st EXCEPT !.skipped = @ + 1]

\* self.stats["processed"] += 1
count_processed(st) == [st EXCEPT !.processed = @ + 1]

\* A failure counted under the wrong key.
count_failed_as_processed(st) == [st EXCEPT !.processed = @ + 1]

\* self.stats["failed"] += 1
count_failed(st) == [st EXCEPT !.failed = @ + 1]

\* The gate without `not force`: the staleness checker is always consulted.
checks_staleness_always(f) == TRUE

\* `not force and ...`: whether process_file consults the staleness checker.
checks_staleness(f) == ~f

\* What needs_update may answer: the FileManager's answer on the file system,
\* anything for a test double.
needs_update_outcomes(tex_file, png_file) ==
    IF file_manager = "FileManager"
    THEN {needs_update(tex_file, png_file)}
    ELSE {"True", "False", "Exception"}

\* The try block with the cleanup moved before the conversion.
next_step_cleanup_first(step) ==
    CASE step = "compile" -> "cleanup"
      [] step = "convert" -> "cleanup"

\* The body of the try block: the step that follows a step that succeeded.
next_step(step) ==
    CASE step = "compile" -> "convert"
      [] step = "convert" -> "cleanup"

\* The for loop of run: after process_file returned for tex_files[i].
loop_pc(i, files) == IF i + 1 > Len(files) THEN "returned" ELSE "process_file"

\* process_file returned r: run advances to the next file or ends.
Return(r) ==
    /\ ret' = r
    /\ idx' = idx + 1
    /\ pc' = loop_pc(idx, tex_files)

\* An except clause that lets the error go on to run.
except_reraise ==
    /\ pc' = "raised"
    /\ UNCHANGED <<stats, ret, idx>>

\* An except clause that tries the file again.
except_retry ==
    /\ pc' = "compile"
    /\ UNCHANGED <<stats, ret, idx>>

\* The except clause of process_file.
except_handler ==
    /\ stats' = count_failed(stats)
    /\ Return("False")

tex_file == tex_files[idx]

\* A run that says nothing when it finds no source.
no_files_effects_silent == <<>>

\* logger.warning("No .tex files found in Assets/TikZ!")
no_files_effects == <<Effect("logger.warning", "No .tex files found in Assets/TikZ!")>>

\* Lines 245-251: the panel "Found N TikZ files to process".
found_print(n) == <<Effect("console.print", <<"Found", n>>)>>

\* run, up to the loop: enumerate; warn and return when there is nothing.
run_call(f) ==
    /\ force' = f
    /\ tex_files' \in Orderings(glob_tex)
    /\ calls' = <<>>
    /\ idx' = 1
    /\ pc' = IF glob_tex = {} THEN "returned" ELSE "process_file"
    /\ effects' = effects \o <<Effect("glob", TikzDir)>>
                     \o (IF glob_tex = {} THEN no_files_effects
                         ELSE found_print(Cardinality(glob_tex)))
    /\ UNCHANGED <<entries, dangling, mtime, file_manager, stats, ret,
                   cleanup_log, before>>
    /\ UNCHANGED setup_vars

\* run(force) on the converter that was just built.
run(f) == pc = "constructed" /\ run_call(f)

\* The number of calls of run so far: each one globs the source directory once.
NumRuns == Cardinality({i \in 1..Len(effects) : effects[i].op = "glob"})

\* A run that starts by setting the counters back to zero.
run_again_reset(f) ==
    /\ pc = "returned"
    /\ NumRuns < MaxRuns
    /\ force' = f
    /\ tex_files' \in Orderings(glob_tex)
    /\ calls' = <<>>
    /\ idx' = 1
    /\ pc' = IF glob_tex = {} THEN "returned" ELSE "process_file"
    /\ stats' = [processed |-> 0, skipped |-> 0, failed |-> 0]
    /\ effects' = effects \o <<Effect("glob", TikzDir)>>
                     \o (IF glob_tex = {} THEN no_files_effects
                         ELSE found_print(Cardinality(glob_tex)))
    /\ UNCHANGED <<entries, dangling, mtime, file_manager, ret, cleanup_log, before>>
    /\ UNCHANGED setup_vars

\* run(force) called again on a converter whose earlier run has returned:
\* lines 239-273 assign nothing to self.stats.
run_again(f) ==
    /\ pc = "returned"
    /\ NumRuns < MaxRuns
    /\ run_call(f)

\* Line 222: progress.update(task_id, description=f"Processing {name}").
progress_update(f) == <<Effect("progress.update", <<"Processing", f>>)>>

\* Lines 233-236: the except clause prints the error on the progress console.
error_print(f, exc) ==
    <<Effect("progress.console.print", <<"Error processing", f, exc>>)>>

\* Lines 268-273: the summary panel, printed when the loop has ended.
summary_print(st) == <<Effect("console.print", <<"Summary", st>>)>>

\* Lines 264-273: what run does after process_file returned r for
\* tex_files[idx], the counters being st: logger.info for a file that was
\* processed, and the summary after the last file.
returned_effects(r, st) ==
    (IF r = "True" THEN <<Effect("logger.info", <<"Processed", tex_file>>)>> ELSE <<>>)
    \o (IF idx + 1 > Len(tex_files) THEN summary_print(st) ELSE <<>>)

\* process_file, lines 215-218: the staleness gate, outside the try.
process_file_check ==
    /\ pc = "process_file"
    /\ IF checks_staleness(force)
       THEN \E r \in needs_update_outcomes(tex_file, png_path_of(tex_file)) :
              /\ calls' = Append(calls, Call("needs_update", tex_file, r))
              /\ CASE r = "True" ->
                        /\ pc' = "compile"
                        /\ effects' = effects \o progress_update(tex_file)
                        /\ UNCHANGED <<stats, ret, idx>>
                   [] r = "False" ->
                        /\ stats' = count_skipped(stats)
                        /\ effects' = effects \o returned_effects("False", stats')
                        /\ Return("False")
                   [] OTHER ->
                        /\ pc' = "raised"
                        /\ UNCHANGED <<stats, ret, idx, effects>>
       ELSE /\ pc' = "compile"
            /\ effects' = effects \o progress_update(tex_file)
            /\ UNCHANGED <<stats, ret, idx, calls>>
    /\ UNCHANGED <<entries, dangling, mtime, file_manager, force, tex_files,
                   cleanup_log, before>>
    /\ UNCHANGED setup_vars

\* A compiler that starts the subprocess without looking at the source.
compile_runs_subprocess_always(f) == TRUE

\* LaTeXCompiler.compile, lines 108-115: subprocess.run is reached only when
\* tex_file.exists().
compile_runs_subprocess(f) == exists(f)

\* process_file, line 224: latex_compiler.compile(tex_file).
process_file_compile ==
    /\ pc = "compile"
    /\ UNCHANGED setup_vars
    /\ LET started == IF compile_runs_subprocess(tex_file)
                      THEN Append(effects, Effect("subprocess.run", <<"latex", tex_file>>))
                      ELSE effects
       IN IF ~exists(tex_file)
          THEN /\ calls' = Append(calls, Call("compile", tex_file, "FileNotFoundError"))
               /\ except_handler
               /\ effects' = started \o error_print(tex_file, "FileNotFoundError")
                                     \o returned_effects("False", stats')
               /\ UNCHANGED entries
          ELSE \E ok \in BOOLEAN :
                 /\ entries' = entries \cup compile_products(tex_file, ok)
                 /\ IF ok
                    THEN /\ calls' = Append(calls, Call("compile", tex_file, "ok"))
                         /\ pc' = next_step("compile")
                         /\ effects' = started
                         /\ UNCHANGED <<stats, ret, idx>>
                    ELSE /\ calls' = Append(calls, Call("compile", tex_file, "LaTeXError"))
                         /\ except_handler
                         /\ effects' = started \o error_print(tex_file, "LaTeXError")
                                               \o returned_effects("False", stats')
    /\ UNCHANGED <<dangling, mtime, file_manager, force, tex_files,
                   cleanup_log, before>>

\* process_file, lines 225-226: image_converter.convert_pdf_to_png.
process_file_convert ==
    /\ pc = "convert"
    /\ UNCHANGED setup_vars
    /\ LET started == Append(effects,
                        Effect("subprocess.run", <<"imagemagick", pdf_file_of(tex_file)>>))
       IN \E ok \in BOOLEAN :
            IF ok /\ exists(pdf_file_of(tex_file))
            THEN /\ calls' = Append(calls, Call("convert_pdf_to_png", tex_file, "ok"))
                 /\ entries' = entries \cup {png_path_of(tex_file)}
                 /\ mtime' = [mtime EXCEPT ![png_path_of(tex_file)] = Now]
                 /\ pc' = next_step("convert")
                 /\ effects' = started
                 /\ UNCHANGED <<stats, ret, idx>>
            ELSE /\ calls' = Append(calls,
                         Call("convert_pdf_to_png", tex_file, "ImageMagickError"))
                 /\ except_handler
                 /\ effects' = started \o error_print(tex_file, "ImageMagickError")
                                       \o returned_effects("False", stats')
                 /\ UNCHANGED <<entries, mtime>>
    /\ UNCHANGED <<dangling, file_manager, force, tex_files, cleanup_log, before>>

\* The unlink failures one cleanup inside a run may meet: none, or every
\* byproduct of the file (the directory does not allow deletions).
run_unlink_failures(base_path) ==
    {{}, {f \in aux_files(base_path) : exists(f)}}

\* A cleanup that lets a failed deletion out as an exception.
cleanup_raises_on_failure(log) == \E i \in 1..Len(log) : log[i][1] = "Failed"

\* cleanup_auxiliary_files, lines 153-162: the try around each unlink
\* catches the error, so the cleanup raises nothing whatever it logged.
cleanup_raises(log) == FALSE

\* process_file, lines 227-230: cleanup, then count the file as processed;
\* nothing is printed on the progress console.
process_file_cleanup ==
    /\ pc = "cleanup"
    /\ before' = entries
    /\ UNCHANGED setup_vars
    /\ IF file_manager = "FileManager"
       THEN \E failing \in run_unlink_failures(tex_file) :
              LET r == cleanup_auxiliary_files(entries, tex_file, failing)
              IN /\ entries' = r.entries
                 /\ cleanup_log' = cleanup_log \o r.log
                 /\ IF cleanup_raises(r.log)
                    THEN /\ calls' = Append(calls,
                               Call("cleanup_auxiliary_files", tex_file, "Exception"))
                         /\ except_handler
                         /\ effects' = effects \o error_print(tex_file, "Exception")
                                               \o returned_effects("False", stats')
                    ELSE /\ calls' = Append(calls,
                               Call("cleanup_auxiliary_files", tex_file, "ok"))
                         /\ stats' = count_processed(stats)
                         /\ effects' = effects \o returned_effects("True", stats')
                         /\ Return("True")
       ELSE \E ok \in BOOLEAN :
              /\ UNCHANGED <<entries, cleanup_log>>
              /\ IF ok
                 THEN /\ calls' = Append(calls,
                             Call("cleanup_auxiliary_files", tex_file, "ok"))
                      /\ stats' = count_processed(stats)
                      /\ effects' = effects \o returned_effects("True", stats')
                      /\ Return("True")
                 ELSE /\ calls' = Append(calls,
                             Call("cleanup_auxiliary_files", tex_file, "Exception"))
                      /\ except_handler
                      /\ effects' = effects \o error_print(tex_file, "Exception")
                                            \o returned_effects("False", stats')
    /\ UNCHANGED <<dangling, mtime, file_manager, force, tex_files>>

\* ------------------------------------------------------ extract_latex_errors
\* A text is a sequence of tokens: the line break, a blank, and words.
TextTokens == {"\n", " ", "x", "!", "Error", "FATAL"}

Texts == UNION {[1..n -> TextTokens] : n \in 0..MaxTextLen}

\* str.splitlines(), from the i-th token on: a line break ends a line, and
\* the text after the last line break is a line when it is not empty.
RECURSIVE split_from(_, _, _, _)
split_from(text, i, line, lines) ==
    IF i > Len(text) THEN (IF line # <<>> THEN Append(lines, line) ELSE lines)
    ELSE IF text[i] = "\n" THEN split_from(text, i + 1, <<>>, Append(lines, line))
    ELSE split_from(text, i + 1, Append(line, text[i]), lines)

splitlines(text) == split_from(text, 1, <<>>, <<>>)

\* str.lower() of a token.
lower(tok) ==
    CASE tok = "Error" -> "error"
      [] tok = "FATAL" -> "fatal"
      [] OTHER -> tok

\* x in line.lower()
contains_lower(line, x) == \E i \in 1..Len(line) : lower(line[i]) = x

\* any(x in line.lower() for x in ["error", "!", "fatal"])
is_error_line(line) == \E x \in {"error", "!", "fatal"} : contains_lower(line, x)

\* A line kept as it is.
strip_nothing(line) == line

\* str.strip(): the line without its leading and trailing blanks.
strip(line) ==
    LET inked == {i \in 1..Len(line) : line[i] # " "}
    IN IF inked = {} THEN <<>>
       ELSE SubSeq(line, CHOOSE i \in inked : \A j \in inked : i <= j,
                         CHOOSE i \in inked : \A j \in inked : i >= j)

\* "\n".join(lines), from the i-th line on.
RECURSIVE join_from(_, _)
join_from(lines, i) ==
    IF i > Len(lines) THEN <<>>
    ELSE IF i = Len(lines) THEN lines[i]
    ELSE lines[i] \o <<"\n">> \o join_from(lines, i + 1)

\* The for loop of extract_latex_errors, from the i-th line on.
RECURSIVE collect_error_lines(_, _, _)
collect_error_lines(lines, i, error_lines) ==
    IF i > Len(lines) THEN error_lines
    ELSE IF is_error_line(lines[i])
         THEN collect_error_lines(lines, i + 1, Append(error_lines, strip(lines[i])))
         ELSE collect_error_lines(lines, i + 1, error_lines)

extract_latex_errors(text) ==
    LET error_lines == collect_error_lines(splitlines(text), 1, <<>>)
    IN IF error_lines # <<>> THEN join_from(error_lines, 1) ELSE text

\* ---------------------------------------------------------- directories.py
\* The directory paths of a start-up: the defaults under the base path, their
\* parent, and the paths the command line may give.
AssetsDir == <<"base", "Assets">>

DefaultTikz == <<"base", "Assets", "TikZ">>

DefaultFigures == <<"base", "Assets", "figures">>

CustomTikz == <<"custom_tikz">>

CustomFigures == <<"custom_figures">>

DirPaths == {AssetsDir, DefaultTikz, DefaultFigures, CustomTikz, CustomFigures}

\* The state of a path: nothing there, or a file or a directory that the
\* process may read (r) and write (w).
Absent == [kind |-> "absent", r |-> FALSE, w |-> FALSE]

Present == [kind : {"file", "dir"}, r : BOOLEAN, w : BOOLEAN]

NewDir == [kind |-> "dir", r |-> TRUE, w |-> TRUE]

\* Path.exists(), Path.is_dir() and os.access(path, mode) on a state fs.
dir_exists(fs, p) == fs[p].kind # "absent"

is_dir(fs, p) == fs[p].kind = "dir"

access(fs, p, mode) == fs[p].kind # "absent" /\ fs[p][mode]

\* Path.mkdir(parents=True, exist_ok=True) of a default directory p: the
\* state after it and the error it raises ("None" when it returns).
mkdir(fs, p) ==
    CASE fs[AssetsDir].kind = "file" ->
            [dirs |-> fs, exc |-> "NotADirectoryError"]
      [] fs[AssetsDir].kind = "absent" ->
            [dirs |-> [fs EXCEPT ![AssetsDir] = NewDir, ![p] = NewDir], exc |-> "None"]
      [] fs[AssetsDir].kind = "dir" /\ fs[p].kind = "dir" ->
            [dirs |-> fs, exc |-> "None"]
      [] fs[AssetsDir].kind = "dir" /\ fs[p].kind = "file" ->
            [dirs |-> fs, exc |-> "FileExistsError"]
      [] fs[AssetsDir].kind = "dir" /\ fs[p].kind = "absent" ->
            IF fs[AssetsDir].w
            THEN [dirs |-> [fs EXCEPT ![p] = NewDir], exc |-> "None"]
            ELSE [dirs |-> fs, exc |-> "PermissionError"]

\* An exception with the path its message names; NoError when none is raised.
Error(exc, path) == [exc |-> exc, path |-> path]

NoError == [exc |-> "None", path |-> <<>>]

\* A create that ignores the paths it is given.
resolve_default(given, custom, default) == default

\* tikz=tikz_path if tikz_path else (base_path / "Assets" / "TikZ"), and the
\* same for figures.
resolve(given, custom, default) == IF given = "None" THEN default ELSE custom

\* Directories.create(tikz_path=cfg.tikz_dir, figures_path=cfg.output_dir) on
\* the state fs: the state after it, the object it returns, what it raises
\* and the system calls it made.
Directories_create(fs, cfg) ==
    LET tikz == resolve(cfg.tikz_dir, CustomTikz, DefaultTikz)
        figures == resolve(cfg.output_dir, CustomFigures, DefaultFigures)
        obj == [tikz |-> tikz, figures |-> figures]
        e1 == IF cfg.tikz_dir # "None" THEN <<Effect("exists", tikz)>> ELSE <<>>
        e2 == IF cfg.output_dir # "None" THEN <<Effect("exists", figures)>> ELSE <<>>
        m1 == IF cfg.tikz_dir = "None" THEN mkdir(fs, tikz)
              ELSE [dirs |-> fs, exc |-> "None"]
        e3 == IF cfg.tikz_dir = "None" THEN <<Effect("mkdir", tikz)>> ELSE <<>>
        m2 == IF cfg.output_dir = "None" THEN mkdir(m1.dirs, figures)
              ELSE [dirs |-> m1.dirs, exc |-> "None"]
        e4 == IF cfg.output_dir = "None" THEN <<Effect("mkdir", figures)>> ELSE <<>>
    IN CASE cfg.tikz_dir # "None" /\ ~dir_exists(fs, tikz) ->
              [dirs |-> fs, obj |-> "None", effects |-> e1,
               error |-> Error("FileNotFoundError", tikz)]
         [] cfg.tikz_dir # "None" => dir_exists(fs, tikz) ->
              IF cfg.output_dir # "None" /\ ~dir_exists(fs, figures)
              THEN [dirs |-> fs, obj |-> "None", effects |-> e1 \o e2,
                    error |-> Error("FileNotFoundError", figures)]
              ELSE IF m1.exc # "None"
              THEN [dirs |-> m1.dirs, obj |-> "None", effects |-> e1 \o e2 \o e3,
                    error |-> Error(m1.exc, tikz)]
              ELSE IF m2.exc # "None"
              THEN [dirs |-> m2.dirs, obj |-> "None", effects |-> e1 \o e2 \o e3 \o e4,
                    error |-> Error(m2.exc, figures)]
              ELSE [dirs |-> m2.dirs, obj |-> obj, effects |-> e1 \o e2 \o e3 \o e4,
                    error |-> NoError]

\* The checks with the permissions looked at before the kind of the path.
validate_checks_access_first ==
    << [test |-> "exists", dir |-> "tikz", exc |-> "FileNotFoundError"],
       [test |-> "r", dir |-> "tikz", exc |-> "PermissionError"],
       [test |-> "w", dir |-> "figures", exc |-> "PermissionError"],
       [test |-> "is_dir", dir |-> "tikz", exc |-> "NotADirectoryError"] >>

\* The checks of validate, in the order of the code.
validate_checks ==
    << [test |-> "exists", dir |-> "tikz", exc |-> "FileNotFoundError"],
       [test |-> "is_dir", dir |-> "tikz", exc |-> "NotADirectoryError"],
       [test |-> "r", dir |-> "tikz", exc |-> "PermissionError"],
       [test |-> "w", dir |-> "figures", exc |-> "PermissionError"] >>

\* One check of validate on the object obj.
check_passes(fs, obj, c) ==
    CASE c.test = "exists" -> dir_exists(fs, obj[c.dir])
      [] c.test = "is_dir" -> is_dir(fs, obj[c.dir])
      [] c.test \in {"r", "w"} -> access(fs, obj[c.dir], c.test)

\* Directories.validate, from the i-th check on: the error of the first check
\* that does not pass (NoError when all pass) and the checks it made.
RECURSIVE validate_from(_, _, _, _)
validate_from(i, fs, obj, made) ==
    IF i > Len(validate_checks) THEN [error |-> NoError, effects |-> made]
    ELSE LET c == validate_checks[i]
             e == Append(made, Effect(c.test, obj[c.dir]))
         IN IF check_passes(fs, obj, c)
            THEN validate_from(i + 1, fs, obj, e)
            ELSE [error |-> Error(c.exc, obj[c.dir]), effects |-> e]

Directories_validate(fs, obj) == validate_from(1, fs, obj, <<>>)

\* ------------------------------------------------- the tools' constructors
\* shutil.which(cmd) on the host h.
which(h, cmd) == cmd \in h.on_path

\* A command found, or the error of the constructor, with the lookups made.
Found(cmd, made) == [command |-> cmd, error |-> NoError, effects |-> made]

NotFound(exc, made) == [command |-> "None", error |-> Error(exc, <<>>), effects |-> made]

\* ImageConverter._get_imagemagick_command.
get_imagemagick_command(h) ==
    IF h.platform = "Windows"
    THEN IF which(h, "magick.exe")
         THEN Found("magick.exe", <<Effect("which", "magick.exe")>>)
         ELSE NotFound("ImageMagickError", <<Effect("which", "magick.exe")>>)
    ELSE IF which(h, "magick")
         THEN Found("magick", <<Effect("which", "magick")>>)
         ELSE IF which(h, "convert")
              THEN Found("convert",
                         << Effect("which", "magick"), Effect("which", "convert"),
                            Effect("logger.warning", "Using deprecated 'convert' command") >>)
              ELSE NotFound("ImageMagickError",
                            <<Effect("which", "magick"), Effect("which", "convert")>>)

\* The candidates with the fallback first.
latex_candidates_latex_first(h) ==
    IF h.platform = "Windows" THEN <<"latex.exe", "pdflatex.exe">>
    ELSE <<"latex", "pdflatex">>

\* The candidates of _get_latex_command, in the order they are tried.
latex_candidates(h) ==
    IF h.platform = "Windows" THEN <<"pdflatex.exe", "latex.exe">>
    ELSE <<"pdflatex", "latex">>

\* The for loop of _get_latex_command, from the i-th candidate on.
RECURSIVE first_found(_, _, _, _)
first_found(h, candidates, i, made) ==
    IF i > Len(candidates) THEN NotFound("LaTeXError", made)
    ELSE LET e == Append(made, Effect("which", candidates[i]))
         IN IF which(h, candidates[i]) THEN Found(candidates[i], e)
            ELSE first_found(h, candidates, i + 1, e)

\* LaTeXCompiler._get_latex_command.
get_latex_command(h) == first_found(h, latex_candidates(h), 1, <<>>)

\* ------------------------------------------------------------ initial states
\* One source stem at start: absent, a regular file, or a dangling link;
\* src: the source's mtime; png: the output's mtime, -1 when there is none.
AbsentFile == [kind |-> "absent", src |-> 0, png |-> -1]

RegularFiles == [kind : {"regular"}, src : Times, png : {-1} \cup Times]

DanglingFiles == [kind : {"dangling"}, src : {0}, png : {-1, 0}]

\* The fixture of the tests with test doubles: touched sources, no output.
FixtureFiles == [kind : {"regular"}, src : {Now}, png : {-1}]

StemIndex(p) == CHOOSE i \in 1..MaxFiles : path_stem(p) = <<StemNames[i]>>

\* The file system a configuration cfg (one record per stem) stands for.
InitFileSystem(cfg) ==
    /\ entries = Unrelated
            \cup {TexPath(<<StemNames[i]>>) : i \in {j \in 1..MaxFiles : cfg[j].kind # "absent"}}
            \cup {png_path_of(TexPath(<<StemNames[i]>>)) :
                    i \in {j \in 1..MaxFiles : cfg[j].png >= 0}}
    /\ dangling = {TexPath(<<StemNames[i]>>) :
                    i \in {j \in 1..MaxFiles : cfg[j].kind = "dangling"}}
    /\ mtime = [p \in TimedPaths |->
                  IF p[1] = TikzDir THEN cfg[StemIndex(p)].src
                  ELSE IF cfg[StemIndex(p)].png < 0 THEN 0 ELSE cfg[StemIndex(p)].png]

\* TikZConverter.__init__: the counters start at zero.
InitConverter ==
    /\ force = FALSE
    /\ tex_files = <<>>
    /\ idx = 1
    /\ stats = [processed |-> 0, skipped |-> 0, failed |-> 0]
    /\ ret = "None"
    /\ calls = <<>>
    /\ cleanup_log = <<>>
    /\ before = entries

\* A host with the tools installed, and directories that pass validate: a
\* converter that was built before the model starts.
DefaultHost == [platform |-> "Linux", on_path |-> {"pdflatex", "magick"}]

NoCommands == [imagemagick |-> "None", latex |-> "None"]

InitBuilt ==
    /\ host = DefaultHost
    /\ dirs = [p \in DirPaths |->
                 IF p \in {CustomTikz, CustomFigures} THEN Absent ELSE NewDir]
    /\ config = [force |-> FALSE, tikz_dir |-> "None", output_dir |-> "None"]
    /\ directories = [tikz |-> DefaultTikz, figures |-> DefaultFigures]
    /\ commands = [imagemagick |-> "magick", latex |-> "pdflatex"]
    /\ effects = <<>>
    /\ result = NoError
    /\ exit_code = -1
    /\ stderr = <<>>

Init ==
    /\ file_manager \in {"FileManager", "Mock"}
    /\ \E n \in 0..MaxFiles :
         \E cfg \in [1..MaxFiles ->
                       {AbsentFile} \cup
                       (IF file_manager = "FileManager"
                        THEN RegularFiles \cup DanglingFiles
                        ELSE FixtureFiles)] :
            /\ \A i \in 1..MaxFiles : (i <= n) <=> (cfg[i].kind # "absent")
            /\ InitFileSystem(cfg)
    /\ InitConverter
    /\ InitBuilt
    /\ pc = "constructed"

\* A FileManager on its own, as the unit tests use it: every stem has its
\* source and output, and the byproducts with the extensions of exts.
InitFM ==
    /\ file_manager = "FileManager"
    /\ \E exts \in SUBSET AuxExtSet :
         entries = Unrelated
            \cup {TexPath(s) : s \in Stems}
            \cup {png_path_of(TexPath(s)) : s \in Stems}
            \cup {join_name(TikzDir, s, e) : s \in Stems, e \in exts}
    /\ dangling = {}
    /\ mtime = [p \in TimedPaths |-> Now]
    /\ InitConverter
    /\ InitBuilt
    /\ pc = "file_manager"

\* The hosts: a platform and the commands it has on its PATH.
Hosts ==
    [platform : {"Linux"}, on_path : SUBSET {"pdflatex", "latex", "magick", "convert"}]
    \cup [platform : {"Windows"},
          on_path : SUBSET {"pdflatex.exe", "latex.exe", "magick.exe", "convert"}]

Configs == [force : BOOLEAN, tikz_dir : {"None", "given"}, output_dir : {"None", "given"}]

\* The directory states a configuration cfg can meet: only the paths it uses
\* are there, and a default directory only inside an Assets directory.
DirStates(cfg) ==
    {fs \in [DirPaths -> {Absent} \cup Present] :
        /\ fs[AssetsDir] \in {Absent, NewDir, [NewDir EXCEPT !.w = FALSE],
                              [NewDir EXCEPT !.kind = "file"]}
        /\ fs[AssetsDir].kind # "dir" =>
              fs[DefaultTikz] = Absent /\ fs[DefaultFigures] = Absent
        /\ cfg.tikz_dir = "None" => fs[CustomTikz] = Absent
        /\ cfg.tikz_dir # "None" => fs[DefaultTikz] = Absent
        /\ cfg.output_dir = "None" => fs[CustomFigures] = Absent
        /\ cfg.output_dir # "None" => fs[DefaultFigures] = Absent
        /\ (cfg.tikz_dir # "None" /\ cfg.output_dir # "None") => fs[AssetsDir] = Absent}

\* A source directory without files, a converter not yet built.
InitNotBuilt ==
    /\ file_manager = "FileManager"
    /\ entries = Unrelated
    /\ dangling = {}
    /\ mtime = [p \in TimedPaths |-> 0]
    /\ InitConverter
    /\ commands = NoCommands
    /\ effects = <<>>
    /\ result = NoError
    /\ exit_code = -1
    /\ stderr = <<>>

\* The process at the start of main(): any command line on any host, the
\* directories without permission problems, and a source directory (when it
\* is there) with no source, one stale source, or one dangling link whose
\* output exists.
InitMain ==
    /\ config \in Configs
    /\ dirs \in {fs \in DirStates(config) :
                   \A p \in DirPaths : fs[p].kind # "absent" => fs[p].r /\ fs[p].w}
    /\ host \in Hosts
    /\ file_manager = "FileManager"
    /\ \E cfg \in [1..MaxFiles -> {AbsentFile} \cup FixtureFiles \cup DanglingFiles] :
         /\ \A i \in 2..MaxFiles : cfg[i] = AbsentFile
         /\ cfg[1].kind = "dangling" => cfg[1].png = 0
         /\ cfg[1].kind # "absent" =>
               is_dir(dirs, resolve(config.tikz_dir, CustomTikz, DefaultTikz))
         /\ InitFileSystem(cfg)
    /\ InitConverter
    /\ directories = [tikz |-> <<>>, figures |-> <<>>]
    /\ commands = NoCommands
    /\ effects = <<>>
    /\ result = NoError
    /\ exit_code = -1
    /\ stderr = <<>>
    /\ pc = "main"

\* create_converter(config) called with any Config on any host
\* (test_create_converter_with_invalid_directories), or a Directories object
\* built by its constructor and then validated (tests/test_directories.py).
InitSetup ==
    /\ config \in {c \in Configs : ~c.force}
    /\ dirs \in DirStates(config)
    /\ host \in Hosts
    /\ InitNotBuilt
    /\ \/ pc = "Directories.create" /\ directories = [tikz |-> <<>>, figures |-> <<>>]
       \/ /\ pc = "Directories.validate"
          /\ directories = [tikz |-> resolve(config.tikz_dir, CustomTikz, DefaultTikz),
                            figures |-> resolve(config.output_dir, CustomFigures,
                                                DefaultFigures)]

\* The base paths the cleanup is called with: a source path, or the path
\* without its suffix (tests/test_file_manager.py).
BasePaths == {TexPath(s) : s \in Stems} \cup {<<TikzDir, s>> : s \in Stems}

\* One call of FileManager.cleanup_auxiliary_files, with any unlink failures.
file_manager_cleanup(base_path, failing) ==
    /\ pc = "file_manager"
    /\ before' = entries
    /\ LET r == cleanup_auxiliary_files(entries, base_path, failing)
       IN /\ entries' = r.entries
          /\ cleanup_log' = cleanup_log \o r.log
    /\ calls' = Append(calls, Call("cleanup_auxiliary_files", base_path, "ok"))
    /\ pc' = "file_manager_returned"
    /\ UNCHANGED <<dangling, mtime, file_manager, force, tex_files, idx, stats, ret,
                   effects>>
    /\ UNCHANGED setup_vars

NextFM ==
    \E base_path \in BasePaths :
      \E failing \in SUBSET {f \in aux_files(base_path) : exists(f)} :
        file_manager_cleanup(base_path, failing)

SpecFM == InitFM /\ [][NextFM]_vars

\* extract_latex_errors called on any text.
InitErrors ==
    /\ stderr \in Texts
    /\ file_manager = "FileManager"
    /\ entries = Unrelated
    /\ dangling = {}
    /\ mtime = [p \in TimedPaths |-> 0]
    /\ InitConverter
    /\ host = DefaultHost
    /\ dirs = [p \in DirPaths |-> Absent]
    /\ config = [force |-> FALSE, tikz_dir |-> "None", output_dir |-> "None"]
    /\ directories = [tikz |-> <<>>, figures |-> <<>>]
    /\ commands = NoCommands
    /\ effects = <<>>
    /\ result = <<>>
    /\ exit_code = -1
    /\ pc = "extract_latex_errors"

call_extract_latex_errors ==
    /\ pc = "extract_latex_errors"
    /\ result' = extract_latex_errors(stderr)
    /\ pc' = "extracted"
    /\ UNCHANGED <<host, dirs, config, directories, commands, exit_code, stderr,
                   effects>>
    /\ UNCHANGED run_vars

NextErrors == call_extract_latex_errors

SpecErrors == InitErrors /\ [][NextErrors]_vars

\* ---------------------------------------------------------- create_converter
\* The constructors with the compiler built before the rasterizer.
create_converter_steps_latex_first ==
    <<"Directories.create", "Directories.validate", "LaTeXCompiler",
      "ImageConverter", "FileManager">>

\* The calls create_converter makes, in the order Python evaluates them.
create_converter_steps ==
    <<"Directories.create", "Directories.validate", "ImageConverter",
      "LaTeXCompiler", "FileManager">>

step_index(step) ==
    CHOOSE i \in 1..Len(create_converter_steps) : create_converter_steps[i] = step

\* Where create_converter is after the call `step` has returned.
step_after(step) ==
    IF step_index(step) = Len(create_converter_steps) THEN "constructed"
    ELSE create_converter_steps[step_index(step) + 1]

\* A call of create_converter returned (error = NoError) or raised.
step_done(step, error) ==
    /\ result' = error
    /\ pc' = IF error = NoError THEN step_after(step) ELSE "create_converter_raised"

\* Line 286: Directories.create(tikz_path=config.tikz_dir, ...).
create_converter_directories ==
    /\ pc = "Directories.create"
    /\ LET r == Directories_create(dirs, config)
       IN /\ dirs' = r.dirs
          /\ directories' = IF r.error = NoError THEN r.obj ELSE directories
          /\ effects' = effects \o r.effects
          /\ step_done("Directories.create", r.error)
    /\ UNCHANGED <<host, config, commands, exit_code, stderr>>
    /\ UNCHANGED run_vars

\* Line 289: directories.validate().
create_converter_validate ==
    /\ pc = "Directories.validate"
    /\ LET r == Directories_validate(dirs, directories)
       IN /\ effects' = effects \o r.effects
          /\ step_done("Directories.validate", r.error)
    /\ UNCHANGED <<host, dirs, config, directories, commands, exit_code, stderr>>
    /\ UNCHANGED run_vars

\* Line 293: ImageConverter().
create_converter_image_converter ==
    /\ pc = "ImageConverter"
    /\ LET r == get_imagemagick_command(host)
       IN /\ commands' = [commands EXCEPT !.imagemagick = r.command]
          /\ effects' = effects \o r.effects
          /\ step_done("ImageConverter", r.error)
    /\ UNCHANGED <<host, dirs, config, directories, exit_code, stderr>>
    /\ UNCHANGED run_vars

\* Line 294: LaTeXCompiler().
create_converter_latex_compiler ==
    /\ pc = "LaTeXCompiler"
    /\ LET r == get_latex_command(host)
       IN /\ commands' = [commands EXCEPT !.latex = r.command]
          /\ effects' = effects \o r.effects
          /\ step_done("LaTeXCompiler", r.error)
    /\ UNCHANGED <<host, dirs, config, directories, exit_code, stderr>>
    /\ UNCHANGED run_vars

\* Lines 291-296: FileManager(console=console) and TikZConverter(...).
create_converter_file_manager ==
    /\ pc = "FileManager"
    /\ step_done("FileManager", NoError)
    /\ UNCHANGED <<host, dirs, config, directories, commands, exit_code, stderr,
                   effects>>
    /\ UNCHANGED run_vars

NextSetup ==
    \/ create_converter_directories
    \/ create_converter_validate
    \/ create_converter_image_converter
    \/ create_converter_latex_compiler
    \/ create_converter_file_manager

SpecSetup == InitSetup /\ [][NextSetup]_vars

\* ------------------------------------------------------------------- main
\* The path an option of the command line names.
option_path(opt) == IF opt = "tikz_dir" THEN CustomTikz ELSE CustomFigures

\* parser.parse_args(): argparse calls validate_path (config.py) for the
\* options given, in the order opts of the command line, from the i-th on; a
\* path that does not exist ends the parse with an ArgumentTypeError.
RECURSIVE parse_args(_, _, _, _, _)
parse_args(fs, cfg, opts, i, made) ==
    IF i > Len(opts) THEN [error |-> NoError, effects |-> made]
    ELSE IF cfg[opts[i]] = "None" THEN parse_args(fs, cfg, opts, i + 1, made)
    ELSE LET e == Append(made, Effect("exists", option_path(opts[i])))
         IN IF dir_exists(fs, option_path(opts[i]))
            THEN parse_args(fs, cfg, opts, i + 1, e)
            ELSE [error |-> Error("ArgumentTypeError", option_path(opts[i])),
                  effects |-> e]

\* Lines 301-303: the parser exits with 2 on an error, before the try.
main_parse_args ==
    /\ pc = "main"
    /\ \E opts \in {<<"tikz_dir", "output_dir">>, <<"output_dir", "tikz_dir">>} :
         LET r == parse_args(dirs, config, opts, 1, <<>>)
         IN /\ effects' = effects \o r.effects
            /\ result' = r.error
            /\ IF r.error = NoError
               THEN pc' = create_converter_steps[1] /\ UNCHANGED exit_code
               ELSE pc' = "exited" /\ exit_code' = 2
    /\ UNCHANGED <<host, dirs, config, directories, commands, stderr>>
    /\ UNCHANGED run_vars

\* Lines 312-314: an exception of create_converter or run: print it, exit 1.
main_except ==
    /\ pc \in {"create_converter_raised", "raised"}
    /\ result' = IF pc = "raised"
                 THEN Error(calls[Len(calls)].out, calls[Len(calls)].file)
                 ELSE result
    /\ effects' = Append(effects, Effect("console.print", "Error"))
    /\ exit_code' = 1
    /\ pc' = "exited"
    /\ UNCHANGED <<host, dirs, config, directories, commands, stderr>>
    /\ UNCHANGED run_vars

\* A main that reports the files that failed in its exit code.
return_code_counts_failures == IF stats.failed > 0 THEN 1 ELSE 0

\* The exit code of a process whose main() returned.
return_code == 0

\* Line 311 returned: main returns and the process ends.
main_return ==
    /\ pc = "returned"
    /\ exit_code' = return_code
    /\ pc' = "exited"
    /\ UNCHANGED <<host, dirs, config, directories, commands, stderr, effects, result>>
    /\ UNCHANGED run_vars

NextMain ==
    \/ main_parse_args
    \/ create_converter_directories
    \/ create_converter_validate
    \/ create_converter_image_converter
    \/ create_converter_latex_compiler
    \/ create_converter_file_manager
    \/ run(config.force)
    \/ process_file_check
    \/ process_file_compile
    \/ process_file_convert
    \/ process_file_cleanup
    \/ main_except
    \/ main_return

SpecMain == InitMain /\ [][NextMain]_vars

\* ------------------------------------------------ run() called repeatedly
\* A converter with the real FileManager on a directory with at most two
\* sources, the first of any kind and of any age relative to its output, the
\* second a fresh one without output, and run() called on it up to MaxRuns
\* times, forced or not, no source being touched in between.
InitRerun ==
    /\ file_manager = "FileManager"
    /\ \E cfg \in [1..MaxFiles -> {AbsentFile} \cup RegularFiles \cup DanglingFiles] :
         /\ \A i \in 2..MaxFiles : cfg[i] \in {AbsentFile} \cup FixtureFiles
         /\ \A i \in 3..MaxFiles : cfg[i] = AbsentFile
         /\ InitFileSystem(cfg)
    /\ InitConverter
    /\ InitBuilt
    /\ pc = "constructed"

NextRerun ==
    \/ \E f \in BOOLEAN : run(f)
    \/ \E f \in BOOLEAN : run_again(f)
    \/ process_file_check
    \/ process_file_compile
    \/ process_file_convert
    \/ process_file_cleanup

SpecRerun == InitRerun /\ [][NextRerun]_vars

Next ==
    \/ \E f \in BOOLEAN : run(f)
    \/ process_file_check
    \/ process_file_compile
    \/ process_file_convert
    \/ process_file_cleanup

Spec == Init /\ [][Next]_vars

\* ==================================================================== claims
Last(q) == q[Len(q)]

CallIndexes(op, f) == {i \in 1..Len(calls) : calls[i].op = op /\ calls[i].file = f}

NumCalls(op, f) == Cardinality(CallIndexes(op, f))

ToolOps == {"compile", "convert_pdf_to_png", "cleanup_auxiliary_files"}

Total == stats.processed + stats.skipped + stats.failed

\* The calls of the run that raised, by operation.
FailedCalls(op) == {i \in 1..Len(calls) : calls[i].op = op /\ Raised(calls[i])}

OnlyCompileFails == \A i \in 1..Len(calls) : Raised(calls[i]) => calls[i].op = "compile"

\* What the loop of run does after process_file returned for tex_files[idx].
NextFilePc == IF idx < Len(tex_files) THEN "process_file" ELSE "returned"

\* The step that is being taken appends a call c to the log.
Appends(c) == calls' = Append(calls, c)

\* C1: a forced run over N files of which exactly K fail compilation, every
\* other step succeeding, never raises, does not stop before it has returned,
\* and returns with processed = N-K, failed = K, skipped = 0.
C1_PartialFailureCounts ==
    (force /\ pc # "constructed" /\ OnlyCompileFails) =>
        /\ pc # "raised"
        /\ pc # "returned" => ENABLED Next
        /\ pc = "returned" =>
             stats = [processed |-> Len(tex_files) - Cardinality(FailedCalls("compile")),
                      skipped |-> 0,
                      failed |-> Cardinality(FailedCalls("compile"))]

\* A forced run of two files has returned, one file failed compilation.
C1_Witness ==
    /\ force /\ pc = "returned" /\ OnlyCompileFails
    /\ Len(tex_files) = 2
    /\ Cardinality(FailedCalls("compile")) = 1
    /\ stats.processed = 1

\* C2: the step in which the compiler, the rasterizer or the cleaner raises for
\* a file adds exactly 1 to failed, leaves processed (and skipped) alone, makes
\* process_file return False, and leaves run at the next file of the
\* enumeration (or at its end when there is none): the error does not leave
\* process_file.
C2_ToolErrorCaught ==
    [][ (/\ pc \in {"compile", "convert", "cleanup"}
         /\ \E op \in ToolOps, e \in {"LaTeXError", "FileNotFoundError",
                                      "ImageMagickError", "Exception"} :
               Appends(Call(op, tex_file, e)))
        => /\ stats' = [stats EXCEPT !.failed = @ + 1]
           /\ ret' = "False"
           /\ tex_files' = tex_files
           /\ idx' = idx + 1
           /\ pc' = NextFilePc ]_vars

\* The cleaner raised for the first file; run is about to handle the second.
C2_Witness ==
    /\ calls # <<>>
    /\ Last(calls).op = "cleanup_auxiliary_files" /\ Raised(Last(calls))
    /\ Last(calls).file = tex_files[1]
    /\ stats.failed = 1 /\ stats.processed = 0 /\ ret = "False"
    /\ pc = "process_file" /\ idx = 2

\* C3: once the loop of run has started, nothing a per-file step does makes
\* run raise: it handles the remaining files and returns.
C3_NoPerFileAbort ==
    /\ pc # "raised"
    /\ pc \in {"process_file", "compile", "convert", "cleanup"} => ENABLED Next

\* C4: every enumerated file adds one to exactly one counter: the counters sum
\* to the number of files handled so far, and to the number of enumerated files
\* when the run has ended.
C4_OneCounterPerFile ==
    /\ pc \in {"process_file", "compile", "convert", "cleanup"} => Total = idx - 1
    /\ pc \in {"returned", "raised"} => Total = Len(tex_files)

\* C5: the rasterizer is called for a file only right after the compiler
\* returned for it, the cleaner only right after the rasterizer returned for
\* it, and processed counts only files whose cleaner has returned.
C5_StepOrder ==
    /\ \A i \in 1..Len(calls) :
         /\ calls[i].op = "convert_pdf_to_png" =>
              i > 1 /\ calls[i - 1] = Call("compile", calls[i].file, "ok")
         /\ calls[i].op = "cleanup_auxiliary_files" =>
              i > 1 /\ calls[i - 1] = Call("convert_pdf_to_png", calls[i].file, "ok")
    /\ stats.processed <=
         Cardinality({i \in 1..Len(calls) : calls[i].op = "cleanup_auxiliary_files"
                                            /\ ~Raised(calls[i])})

\* A file went through compile, convert and cleanup and was counted.
C5_Witness ==
    /\ Len(calls) >= 3
    /\ Last(calls).op = "cleanup_auxiliary_files" /\ ~Raised(Last(calls))
    /\ stats.processed = 1

\* A file of the run was skipped: the staleness checker said "False" for it.
WasSkipped(f) == \E i \in CallIndexes("needs_update", f) : calls[i].out = "False"

\* C6: in one run no tool is called twice for a file, and every file that
\* process_file has handled without skipping it had the compiler called
\* exactly once, whether that call failed or not.
C6_NoRetries ==
    \A i \in 1..Len(tex_files) :
        /\ \A op \in ToolOps : NumCalls(op, tex_files[i]) <= 1
        /\ (i < idx /\ ~WasSkipped(tex_files[i])) =>
               NumCalls("compile", tex_files[i]) = 1

\* The run has returned; a file failed compilation and was compiled once.
C6_Witness ==
    /\ pc = "returned"
    /\ \E i \in FailedCalls("compile") :
         /\ NumCalls("compile", calls[i].file) = 1
         /\ NumCalls("convert_pdf_to_png", calls[i].file) = 0

\* C7: without force, the step in which the staleness checker answers "up to
\* date" adds 1 to skipped, leaves processed and failed alone, returns False
\* and leaves run at the next file; no tool is ever called for that file.
C7_SkipUpToDate ==
    /\ [][ (pc = "process_file" /\ Appends(Call("needs_update", tex_file, "False")))
           => /\ ~force
              /\ stats' = [stats EXCEPT !.skipped = @ + 1]
              /\ ret' = "False"
              /\ idx' = idx + 1
              /\ pc' = NextFilePc
              /\ entries' = entries ]_vars
    /\ [](\A i \in 1..Len(tex_files) :
            WasSkipped(tex_files[i]) =>
               \A op \in ToolOps : NumCalls(op, tex_files[i]) = 0)

\* The first file was skipped and run is about to handle the second.
C7_Witness ==
    /\ calls # <<>> /\ Last(calls) = Call("needs_update", tex_files[1], "False")
    /\ stats = [processed |-> 0, skipped |-> 1, failed |-> 0]
    /\ ret = "False" /\ pc = "process_file" /\ idx = 2

\* C8: a forced run never calls needs_update and never counts a skip, and has
\* called the compiler for every file it has handled: for every enumerated
\* file when it has returned.
C8_ForceBypassesStaleness ==
    force =>
        /\ \A i \in 1..Len(calls) : calls[i].op # "needs_update"
        /\ stats.skipped = 0
        /\ \A i \in 1..Len(tex_files) :
             (i < idx \/ pc = "returned") => NumCalls("compile", tex_files[i]) = 1
        /\ pc # "raised"

\* A forced run has returned, and compiled a file whose output is up to date.
C8_Witness ==
    /\ force /\ pc = "returned" /\ file_manager = "FileManager"
    /\ \E i \in 1..Len(tex_files) :
         /\ needs_update(tex_files[i], png_path_of(tex_files[i])) = "False"
         /\ NumCalls("compile", tex_files[i]) = 1

\* C9: FileManager.needs_update answers "True" when the output does not exist;
\* when the output exists (and the source can be stat'ed) it answers "True" if
\* the source's mtime is greater than the output's and "False" otherwise, so a
\* tie and an older source both give "False".
C9_NeedsUpdate ==
    (file_manager = "FileManager" /\ calls # <<>> /\ Last(calls).op = "needs_update") =>
        LET tex == Last(calls).file
            png == <<FiguresDir, SubSeq(tex[2], 1, Len(tex[2]) - 1) \o <<".png">>>>
            out == Last(calls).out
        IN /\ png \notin entries => out = "True"
           /\ (png \in entries /\ tex \notin dangling) =>
                 /\ out \in {"True", "False"}
                 /\ out = "True" <=> mtime[tex] > mtime[png]

\* needs_update answered "False" on a tie.
C9_Witness ==
    /\ file_manager = "FileManager" /\ calls # <<>>
    /\ Last(calls).op = "needs_update" /\ Last(calls).out = "False"
    /\ png_path_of(Last(calls).file) \in entries
    /\ mtime[Last(calls).file] = mtime[png_path_of(Last(calls).file)]

\* The five byproduct paths of a base path, as the claim lists them.
Byproducts(base_path) ==
    LET n == base_path[2]
        stem == IF n[Len(n)] = ".tex" THEN SubSeq(n, 1, Len(n) - 1) ELSE n
    IN {<<base_path[1], stem \o <<e>>>> :
          e \in {".aux", ".log", ".pdf", ".pdb_latexmk", ".fls"}}

NoDeletionFailed == \A i \in 1..Len(cleanup_log) : cleanup_log[i][1] # "Failed"

\* C10: a cleanup in which no deletion fails removes exactly the existing
\* byproducts <dir>/<stem>.aux, .log, .pdf, .pdb_latexmk, .fls of its base
\* path: every other file is still there, the sources, the outputs and the
\* byproducts of other stems among them.
C10_CleanupRemovesExactly ==
    (pc = "file_manager_returned" /\ NoDeletionFailed) =>
        /\ entries = before \ Byproducts(Last(calls).file)
        /\ \A s \in Stems : TexPath(s) \in entries /\ png_path_of(TexPath(s)) \in entries
        /\ Unrelated \subseteq entries

\* All five byproducts of the base path were there and are gone, and a
\* byproduct of another stem is still there.
C10_Witness ==
    /\ pc = "file_manager_returned" /\ NoDeletionFailed
    /\ Byproducts(Last(calls).file) \subseteq before
    /\ Byproducts(Last(calls).file) \cap entries = {}
    /\ \E s \in Stems : s # path_stem(Last(calls).file)
                        /\ join_name(TikzDir, s, ".aux") \in entries

\* The positions of the log of the last cleanup that are about the file f.
LogIndexes(f) == {i \in 1..Len(cleanup_log) : cleanup_log[i][2] = f}

\* C11: a cleanup attempts every existing byproduct of its base path once, in
\* the order of the extension list, whatever happened to the earlier ones: a
\* deletion that fails is reported with the name of that file and leaves the
\* file, every other existing byproduct is removed, and the cleanup returns.
C11_IndependentDeletions ==
    pc = "file_manager_returned" =>
        /\ Last(calls) = Call("cleanup_auxiliary_files", Last(calls).file, "ok")
        /\ \A f \in Byproducts(Last(calls).file) :
             /\ Cardinality(LogIndexes(f)) = (IF f \in before THEN 1 ELSE 0)
             /\ \A i \in LogIndexes(f) :
                  (cleanup_log[i][1] = "Failed") <=> (f \in entries)
        /\ \A i, j \in 1..Len(cleanup_log) :
             i < j => \E m, n \in 1..Len(AuxExts) :
                        /\ m < n
                        /\ Last(cleanup_log[i][2][2]) = AuxExts[m]
                        /\ Last(cleanup_log[j][2][2]) = AuxExts[n]

\* The deletion of the .aux file failed; the .log and .fls files after it
\* in the list were removed all the same.
C11_Witness ==
    /\ pc = "file_manager_returned"
    /\ Len(cleanup_log) >= 3
    /\ cleanup_log[1][1] = "Failed" /\ Last(cleanup_log[1][2][2]) = ".aux"
    /\ cleanup_log[2][1] = "Removed"
    /\ Last(cleanup_log)[1] = "Removed" /\ Last(Last(cleanup_log)[2][2]) = ".fls"
    /\ cleanup_log[1][2] \in entries

\* No compiler and no rasterizer command of the platform is on the PATH.
NeitherToolFound ==
    host.on_path \cap {"pdflatex", "latex", "magick", "convert",
                       "pdflatex.exe", "latex.exe", "magick.exe"} = {}

ToolErrors == {"ImageMagickError", "LaTeXError"}

\* The system calls that resolve, create or validate a directory.
DirectoryOps == {"exists", "mkdir", "is_dir", "r", "w"}

EffectIndexes(ops) == {i \in 1..Len(effects) : effects[i].op \in ops}

\* No source was enumerated or touched, and no converter was built.
NothingStarted ==
    /\ tex_files = <<>> /\ calls = <<>> /\ entries = Unrelated
    /\ EffectIndexes({"glob", "subprocess.run"}) = {}
    /\ pc # "constructed"

\* C12 as stated: when neither the compiler nor the rasterizer is found, the
\* start-up fails with a tool-unavailable error and has not resolved, created
\* or validated any directory, nor touched a source.
C12_ToolsBeforeDirectories ==
    NeitherToolFound =>
        /\ EffectIndexes(DirectoryOps) = {}
        /\ pc = "create_converter_raised" => result.exc \in ToolErrors
        /\ NothingStarted

\* C12, amended: when neither tool is found, create_converter resolves the
\* directories (creating the default ones) and validates them before it looks
\* for a tool; it then fails with the rasterizer's ImageMagickError without
\* looking for the compiler, or with the directory error when the directories
\* are not usable. No converter is built and no source enumerated or touched.
C12_ToolErrorAfterDirectories ==
    NeitherToolFound =>
        /\ NothingStarted
        /\ commands = NoCommands
        /\ pc \notin {"LaTeXCompiler", "FileManager"}
        /\ \A i \in EffectIndexes({"which"}) :
             /\ effects[i].arg \in {"magick", "convert", "magick.exe"}
             /\ \A j \in EffectIndexes(DirectoryOps) : j < i
        /\ pc = "create_converter_raised" =>
             IF EffectIndexes({"which"}) # {}
             THEN /\ result = Error("ImageMagickError", <<>>)
                  /\ EffectIndexes({"r"}) # {} /\ EffectIndexes({"w"}) # {}
                  /\ is_dir(dirs, directories.tikz)
                  /\ access(dirs, directories.figures, "w")
             ELSE result.exc \in {"FileNotFoundError", "NotADirectoryError",
                                  "PermissionError", "FileExistsError"}

\* Neither tool is there: both default directories were created, with their
\* parent, and validated, and then the ImageMagickError was raised.
C12_Witness ==
    /\ NeitherToolFound /\ pc = "create_converter_raised"
    /\ result = Error("ImageMagickError", <<>>)
    /\ \E i, j \in EffectIndexes({"mkdir"}) : i # j
    /\ dirs[AssetsDir] = NewDir /\ dirs[DefaultTikz] = NewDir
    /\ dirs[DefaultFigures] = NewDir

\* The files for which run called the compiler: their pipeline was started.
PipelineStarted(f) == NumCalls("compile", f) > 0

CallOutcome(op, f, out) == \E i \in CallIndexes(op, f) : calls[i].out = out

ReportedFailed(b) ==
    \E i \in 1..Len(cleanup_log) : cleanup_log[i] = <<"Failed", b>>

RunReturned == EffectIndexes({"glob"}) # {} /\ Total = Len(tex_files)

\* C14 as stated: the exit code is 1 exactly when an error ended main(), and
\* 0 otherwise.
C14_ExitOneIffError ==
    pc = "exited" => exit_code = (IF result # NoError THEN 1 ELSE 0)

\* C14, amended: a command line naming a directory that does not exist is
\* rejected by the parser with exit code 2, before the try block of main();
\* after the parse, the exit code is 1 exactly when an error left
\* create_converter or run(), and 0 when run() returned, whatever the
\* counters say: a run whose files failed exits with 0.
C14_ExitCodes ==
    pc = "exited" =>
        /\ exit_code \in {0, 1, 2}
        /\ exit_code = 2 <=>
              /\ result.exc = "ArgumentTypeError"
              /\ EffectIndexes({"mkdir", "is_dir", "which", "glob", "console.print"}) = {}
        /\ exit_code = 1 <=>
              /\ result.exc \in {"FileNotFoundError", "NotADirectoryError",
                                  "PermissionError", "FileExistsError",
                                  "ImageMagickError", "LaTeXError"}
              /\ ~RunReturned
              /\ effects[Len(effects)] = Effect("console.print", "Error")
        /\ exit_code = 0 <=> RunReturned
        /\ RunReturned => result = NoError

\* The process has exited with 0 after a run whose only file failed.
C14_Witness ==
    /\ pc = "exited" /\ exit_code = 0
    /\ Len(tex_files) = 1 /\ stats.failed = 1 /\ stats.processed = 0

\* The compiler subprocesses started for the source f.
LatexRuns(f) ==
    {i \in 1..Len(effects) : effects[i] = Effect("subprocess.run", <<"latex", f>>)}

\* C15: compile on a source that does not exist (no entry, or a link to
\* nothing) raises FileNotFoundError in a step that starts no subprocess and
\* writes nothing; a compiler subprocess was started only for the compile
\* calls that did not raise FileNotFoundError.
C15_SourceNotFoundFirst ==
    /\ [][ (pc = "compile" /\ (tex_file \notin entries \/ tex_file \in dangling))
           => /\ Appends(Call("compile", tex_file, "FileNotFoundError"))
              /\ {i \in 1..Len(effects') : effects'[i].op = "subprocess.run"}
                    = EffectIndexes({"subprocess.run"})
              /\ entries' = entries ]_vars
    /\ [](\A i \in 1..Len(tex_files) :
            Cardinality(LatexRuns(tex_files[i])) =
               Cardinality({j \in CallIndexes("compile", tex_files[i]) :
                               calls[j].out # "FileNotFoundError"}))

\* compile raised FileNotFoundError for a dangling link, and no subprocess
\* was started for it.
C15_Witness ==
    /\ calls # <<>> /\ Last(calls).op = "compile"
    /\ Last(calls).out = "FileNotFoundError"
    /\ Last(calls).file \in dangling
    /\ LatexRuns(Last(calls).file) = {}
    /\ stats.failed >= 1

\* A line with one of the three markers, in any letter case.
Matches(line) == \E i \in 1..Len(line) : line[i] \in {"!", "Error", "FATAL"}

MatchingLines == SelectSeq(splitlines(stderr), Matches)

\* A line without the blanks at its two ends.
RECURSIVE Trimmed(_)
Trimmed(line) ==
    IF line = <<>> THEN line
    ELSE IF Head(line) = " " THEN Trimmed(Tail(line))
    ELSE IF line[Len(line)] = " " THEN Trimmed(SubSeq(line, 1, Len(line) - 1))
    ELSE line

\* C16 as stated: when a line has a marker, the result is exactly the lines
\* with a marker, in their order, joined with line breaks; when none has, the
\* result is the text itself.
C16_ExactlyTheMatchingLines ==
    pc = "extracted" =>
        result = (IF MatchingLines # <<>> THEN join_from(MatchingLines, 1) ELSE stderr)

\* C16, amended: when a line has a marker, the result is the lines with a
\* marker, each without its leading and trailing blanks, in their order,
\* joined with line breaks, and no other line; when none has, the result is
\* the text itself, its line breaks included.
C16_TheMatchingLinesStripped ==
    pc = "extracted" =>
        IF MatchingLines # <<>>
        THEN /\ result = join_from([i \in 1..Len(MatchingLines) |->
                                      Trimmed(MatchingLines[i])], 1)
             /\ Len(splitlines(result)) = Len(MatchingLines)
             /\ \A i \in 1..Len(splitlines(result)) : Matches(splitlines(result)[i])
        ELSE result = stderr

\* A text of two lines: the first has a marker after a blank, the second has
\* none; the result is the first line without the blank.
C16_Witness ==
    /\ pc = "extracted"
    /\ Len(splitlines(stderr)) = 2
    /\ Matches(splitlines(stderr)[1]) /\ Head(splitlines(stderr)[1]) = " "
    /\ ~Matches(splitlines(stderr)[2])
    /\ result = Trimmed(splitlines(stderr)[1])
    /\ result # splitlines(stderr)[1]

\* The explicit directory that create finds missing first: the source
\* directory, then the output directory; <<>> when there is none.
FirstMissingExplicit ==
    IF config.tikz_dir # "None" /\ dirs[CustomTikz] = Absent THEN CustomTikz
    ELSE IF config.output_dir # "None" /\ dirs[CustomFigures] = Absent THEN CustomFigures
    ELSE <<>>

MkdirEffects(p) == {i \in 1..Len(effects) : effects[i] = Effect("mkdir", p)}

\* C17: Directories.create fails with a FileNotFoundError naming the first
\* explicit directory that does not exist, the source before the output, and
\* then changes nothing. When it returns, an explicit directory is used as
\* given and an omitted one is <base>/Assets/TikZ or <base>/Assets/figures,
\* which exists as a directory afterwards, created with its parent when it
\* was absent. An explicit directory is never created or changed.
C17_DirectoriesCreate ==
    [][ pc = "Directories.create" =>
          /\ FirstMissingExplicit # <<>> =>
                /\ pc' = "create_converter_raised"
                /\ result' = Error("FileNotFoundError", FirstMissingExplicit)
                /\ dirs' = dirs
          /\ pc' = "Directories.validate" =>
                /\ FirstMissingExplicit = <<>>
                /\ directories'.tikz =
                      (IF config.tikz_dir = "None" THEN DefaultTikz ELSE CustomTikz)
                /\ directories'.figures =
                      (IF config.output_dir = "None" THEN DefaultFigures ELSE CustomFigures)
                /\ \A p \in {DefaultTikz, DefaultFigures} :
                     p \in {directories'.tikz, directories'.figures} =>
                        /\ dirs'[p].kind = "dir" /\ dirs'[AssetsDir].kind = "dir"
                        /\ dirs[p] # Absent => dirs'[p] = dirs[p]
          /\ (FirstMissingExplicit = <<>> /\ dirs[AssetsDir] = Absent
                 /\ "None" \in {config.tikz_dir, config.output_dir}) =>
                /\ pc' = "Directories.validate"
                /\ dirs'[AssetsDir] = NewDir
                /\ config.tikz_dir = "None" => dirs'[DefaultTikz] = NewDir
                /\ config.output_dir = "None" => dirs'[DefaultFigures] = NewDir
          /\ \A p \in {CustomTikz, CustomFigures} :
                /\ dirs'[p] = dirs[p]
                /\ \A i \in 1..Len(effects') : effects'[i] # Effect("mkdir", p)
      ]_vars

\* create has returned: the omitted source directory was created with its
\* parent, and the explicit output directory was used as it is.
C17_Witness ==
    /\ pc = "Directories.validate"
    /\ MkdirEffects(DefaultTikz) # {} /\ MkdirEffects(DefaultFigures) = {}
    /\ dirs[AssetsDir] = NewDir /\ dirs[DefaultTikz] = NewDir
    /\ directories = [tikz |-> DefaultTikz, figures |-> CustomFigures]
    /\ dirs[CustomFigures].kind = "file"

\* What the claim says validate reports for a source path in state t and an
\* output path in state f.
FirstFailing(t, f) ==
    IF t.kind = "absent" THEN "FileNotFoundError"
    ELSE IF t.kind # "dir" THEN "NotADirectoryError"
    ELSE IF ~t.r THEN "PermissionError"
    ELSE IF f.kind = "absent" \/ ~f.w THEN "PermissionError"
    ELSE "None"

\* C18: validate raises the error of the first condition that fails, in the
\* order source missing, source not a directory, source unreadable, output
\* not writable, naming the path concerned; it returns only when none fails:
\* the source is then an existing readable directory and the output path
\* exists and is writable. It changes nothing.
C18_ValidateOrder ==
    [][ pc = "Directories.validate" =>
          LET t == dirs[directories.tikz]
              f == dirs[directories.figures]
              exc == FirstFailing(t, f)
          IN /\ result'.exc = exc
             /\ exc \in {"FileNotFoundError", "NotADirectoryError"} =>
                   result'.path = directories.tikz
             /\ exc = "PermissionError" =>
                   result'.path = (IF t.r THEN directories.figures ELSE directories.tikz)
             /\ pc' = (IF exc = "None" THEN "ImageConverter" ELSE "create_converter_raised")
             /\ pc' = "ImageConverter" =>
                   /\ t.kind = "dir" /\ t.r
                   /\ f.kind # "absent" /\ f.w
             /\ dirs' = dirs /\ directories' = directories
      ]_vars

\* validate raised NotADirectoryError for a source path that is a file,
\* though the file is unreadable and the output is not writable either.
C18_Witness ==
    /\ pc = "create_converter_raised"
    /\ \E i \in 1..Len(effects) : effects[i].op = "is_dir"
    /\ result = Error("NotADirectoryError", directories.tikz)
    /\ dirs[directories.tikz].kind = "file" /\ ~dirs[directories.tikz].r
    /\ ~dirs[directories.figures].w

\* C19: a run that finds no .tex file in the source directory logs a warning
\* and returns at once: the counters of the fresh converter are all 0, no
\* staleness check, compiler, rasterizer or cleaner call was made, no
\* subprocess was started and no file was touched.
C19_EmptyDirectory ==
    (pc # "constructed" /\ tex_files = <<>>) =>
        /\ pc = "returned"
        /\ stats = [processed |-> 0, skipped |-> 0, failed |-> 0]
        /\ calls = <<>> /\ cleanup_log = <<>> /\ ret = "None"
        /\ Len(effects) = 2
        /\ effects[1].op = "glob" /\ effects[2].op = "logger.warning"
        /\ entries = before

\* A run has returned from a source directory that holds files, none of
\* them a .tex file, with the warning as the last thing it did.
C19_Witness ==
    /\ pc = "returned" /\ tex_files = <<>>
    /\ \E p \in entries : p[1] = TikzDir
    /\ \A p \in entries : p[1] = TikzDir => Last(p[2]) # ".tex"
    /\ Last(effects).op = "logger.warning"
    /\ Total = 0

\* The first command of a preference list that is on the PATH, "None" when
\* none is.
RECURSIVE Preferred(_)
Preferred(list) ==
    IF list = <<>> THEN "None"
    ELSE IF Head(list) \in host.on_path THEN Head(list)
    ELSE Preferred(Tail(list))

ExpectedLatex ==
    IF host.platform = "Windows" THEN Preferred(<<"pdflatex.exe", "latex.exe">>)
    ELSE Preferred(<<"pdflatex", "latex">>)

ExpectedImageMagick ==
    IF host.platform = "Windows" THEN Preferred(<<"magick.exe">>)
    ELSE Preferred(<<"magick", "convert">>)

\* C20: the rasterizer command is magick.exe on Windows and nothing else, and
\* elsewhere magick, or convert when there is no magick; the compiler command
\* is pdflatex(.exe), or latex(.exe) when there is no pdflatex(.exe). A
\* constructor that finds no command raises its own error: ImageMagickError
\* for the rasterizer, LaTeXError for the compiler.
C20_ToolResolution ==
    /\ commands.imagemagick \in {"None", ExpectedImageMagick}
    /\ commands.latex \in {"None", ExpectedLatex}
    /\ pc \in {"LaTeXCompiler", "FileManager", "constructed"} =>
          commands.imagemagick # "None"
    /\ pc \in {"FileManager", "constructed"} => commands.latex # "None"
    /\ (pc = "create_converter_raised" /\ EffectIndexes({"which"}) # {}) =>
          /\ result.exc \in ToolErrors
          /\ result.exc = "ImageMagickError" <=> ExpectedImageMagick = "None"
          /\ result.exc = "LaTeXError" <=>
                (ExpectedImageMagick # "None" /\ ExpectedLatex = "None")
          /\ result.exc = "LaTeXError" => commands.imagemagick = ExpectedImageMagick
    /\ (pc = "create_converter_raised" /\ result.exc \in ToolErrors) =>
          EffectIndexes({"which"}) # {}

\* A host with pdflatex, latex and convert but no magick: the converter was
\* built with pdflatex and convert.
C20_Witness ==
    /\ pc = "constructed"
    /\ host.platform = "Linux"
    /\ {"pdflatex", "latex", "convert"} \subseteq host.on_path
    /\ commands = [imagemagick |-> "convert", latex |-> "pdflatex"]

\* The messages printed on the progress console about the file f.
ProgressPrints(f) ==
    {i \in 1..Len(effects) :
        effects[i].op = "progress.console.print" /\ effects[i].arg[2] = f}

\* process_file has returned True for the file f: its whole pipeline succeeded.
Succeeded(f) ==
    /\ CallOutcome("compile", f, "ok")
    /\ CallOutcome("convert_pdf_to_png", f, "ok")
    /\ CallOutcome("cleanup_auxiliary_files", f, "ok")

\* C21: for every file whose whole pipeline succeeded, process_file has
\* printed "Successfully converted: <file name> -> <stem>.png" on the
\* progress console, and nothing about the file after it.
C21_SuccessNoticeLast ==
    \A k \in 1..Len(tex_files) :
        Succeeded(tex_files[k]) =>
            \E i \in ProgressPrints(tex_files[k]) :
                /\ effects[i].arg = <<"Successfully converted", tex_files[k],
                                      png_path_of(tex_files[k])[2]>>
                /\ \A j \in ProgressPrints(tex_files[k]) : j <= i

\* C23: with the real FileManager the cleanup step of a file whose compile
\* and rasterize steps succeeded always adds 1 to processed, leaves failed
\* alone and makes process_file return True, and every byproduct whose
\* deletion was reported as failed in that step is still in the directory.
C23_DeletionFailureNotCounted ==
    [][ (pc = "cleanup" /\ file_manager = "FileManager")
        => /\ Appends(Call("cleanup_auxiliary_files", tex_file, "ok"))
           /\ stats' = [stats EXCEPT !.processed = @ + 1]
           /\ ret' = "True"
           /\ idx' = idx + 1
           /\ pc' = NextFilePc
           /\ \A i \in (Len(cleanup_log) + 1)..Len(cleanup_log') :
                 cleanup_log'[i][1] = "Failed" =>
                    /\ cleanup_log'[i][2] \in Byproducts(tex_file)
                    /\ cleanup_log'[i][2] \in entries' ]_vars

\* The only file of a run was counted as processed, process_file returned
\* True, and its .aux, .log and .pdf files could not be deleted and remain.
C23_Witness ==
    /\ file_manager = "FileManager" /\ pc = "returned"
    /\ Len(tex_files) = 1 /\ ret = "True"
    /\ stats = [processed |-> 1, skipped |-> 0, failed |-> 0]
    /\ \A e \in {".aux", ".log", ".pdf"} :
         LET b == <<TikzDir, path_stem(tex_files[1]) \o <<e>>>>
         IN b \in entries /\ ReportedFailed(b)

\* The position in effects of the glob of the run that is under way or ended last.
LastGlob == CHOOSE i \in EffectIndexes({"glob"}) : \A j \in EffectIndexes({"glob"}) : j <= i

RECURSIVE FoundUpTo(_)
\* The number of files the runs announced in their "Found N ..." panels, over
\* the first n effects.
FoundUpTo(n) ==
    IF n = 0 THEN 0
    ELSE FoundUpTo(n - 1)
         + (IF effects[n] \in {Effect("console.print", <<"Found", k>>) : k \in 1..MaxFiles}
            THEN effects[n].arg[2] ELSE 0)

\* The files process_file has returned for in the run under way.
HandledThisRun == IF pc = "returned" THEN Len(tex_files) ELSE idx - 1

\* C22: the counters are zero at construction, no step makes one of them
\* smaller, the start of a run leaves them as they are, at every moment their
\* sum is the number of files handled over all the runs so far, and the
\* summary a run prints shows these totals.
C22_CountersAccumulate ==
    /\ [](NumRuns = 0 => Total = 0)
    /\ [](NumRuns >= 1 => Total = FoundUpTo(LastGlob - 1) + HandledThisRun)
    /\ []((pc = "returned" /\ tex_files # <<>>) =>
             /\ Last(effects) = Effect("console.print", <<"Summary", stats>>)
             /\ Total = FoundUpTo(Len(effects)))
    /\ [][ /\ stats'.processed >= stats.processed
           /\ stats'.skipped >= stats.skipped
           /\ stats'.failed >= stats.failed
           /\ NumRuns' # NumRuns => stats' = stats ]_vars

\* A second run over two files has returned: the first run processed both,
\* the second skipped at least one, and the counters sum to four.
C22_Witness ==
    /\ NumRuns = 2 /\ pc = "returned" /\ Len(tex_files) = 2
    /\ FoundUpTo(LastGlob - 1) = 2
    /\ stats.processed >= 2 /\ stats.skipped >= 1
    /\ Total = 4
    /\ Last(effects) = Effect("console.print", <<"Summary", stats>>)

\* The position in effects of the glob of the run before the current one.
PrevGlob ==
    CHOOSE i \in EffectIndexes({"glob"}) \ {LastGlob} :
        \A j \in EffectIndexes({"glob"}) \ {LastGlob} : j <= i

\* An earlier run on this converter processed f: it logged "Processed: f".
ProcessedEarlier(f) ==
    /\ NumRuns >= 1
    /\ \E i \in 1..(LastGlob - 1) : effects[i] = Effect("logger.info", <<"Processed", f>>)

\* The pipeline of f failed in the run before the current one: that run
\* printed "Error processing f". With the real FileManager the failing step
\* is the compiler or the rasterizer, and no output was written.
FailedInPreviousRun(f) ==
    /\ NumRuns >= 2
    /\ \E i \in (PrevGlob + 1)..(LastGlob - 1) :
         effects[i].op = "progress.console.print" /\ effects[i].arg[2] = f

\* The pipeline of f failed in the run that has just returned.
FailedThisRun(f) ==
    \E i \in 1..Len(calls) :
        /\ calls[i].file = f /\ Raised(calls[i])
        /\ calls[i].op \in {"compile", "convert_pdf_to_png"}

\* The files of the current run process_file has returned for.
HandledFiles == {tex_files[k] : k \in 1..Len(tex_files) \cap 1..(idx - 1)}

NoToolCalled(f) == \A op \in ToolOps : NumCalls(op, f) = 0

\* A file an earlier run processed is skipped by a later non-forced run,
\* which calls no tool for it.
SkipsWhatWasProcessed ==
    (NumRuns >= 2 /\ ~force) =>
        \A k \in 1..Len(tex_files) :
            ProcessedEarlier(tex_files[k]) =>
                /\ NoToolCalled(tex_files[k])
                /\ tex_files[k] \in HandledFiles => WasSkipped(tex_files[k])

\* C24 as stated: a later non-forced run skips, without calling a tool, every
\* file an earlier run processed, and does not skip a file whose pipeline
\* failed in the run before it.
C24_Convergent ==
    /\ SkipsWhatWasProcessed
    /\ (NumRuns >= 2 /\ ~force) =>
          \A k \in 1..Len(tex_files) :
              FailedInPreviousRun(tex_files[k]) => ~WasSkipped(tex_files[k])

\* C24: a later non-forced run skips, without calling a tool, every file an
\* earlier run processed; a file whose pipeline failed in the run before is
\* skipped by a non-forced run only when its output exists and is not older
\* than its source, which cannot be the case when the run that failed was
\* not forced either.
C24_ConvergentUnlessUpToDate ==
    /\ []SkipsWhatWasProcessed
    /\ []((NumRuns >= 2 /\ ~force) =>
            \A k \in 1..Len(tex_files) :
                (FailedInPreviousRun(tex_files[k]) /\ WasSkipped(tex_files[k])) =>
                    /\ exists(tex_files[k])
                    /\ exists(png_path_of(tex_files[k]))
                    /\ mtime[tex_files[k]] <= mtime[png_path_of(tex_files[k])])
    /\ [][ (pc = "returned" /\ NumRuns' > NumRuns /\ ~force /\ ~force') =>
              \A f \in glob_tex :
                  FailedThisRun(f) => needs_update(f, png_path_of(f)) # "False" ]_vars

\* A second, non-forced run has returned: it skipped a file the first run
\* processed and started the pipeline of a file that failed in the first run.
C24_Witness ==
    /\ NumRuns = 2 /\ ~force /\ pc = "returned"
    /\ \E a, b \in glob_tex :
         /\ ProcessedEarlier(a) /\ WasSkipped(a) /\ NoToolCalled(a)
         /\ FailedInPreviousRun(b) /\ ~WasSkipped(b) /\ PipelineStarted(b)

====
